---- MODULE Spec2Model ----
(***************************************************************************)
(* Model of two units of the repository:                                   *)
(*   - packages/firestore/scripts/bloom_filter_watch_test/run_test.ts      *)
(*     (runTest, BloomFilterWatchTest, getBloomFilterNumBits,              *)
(*      assertDocumentsInSnapshot)                                         *)
(*   - packages/auth-ts/src/core/util/delay.ts (class Delay)               *)
(*                                                                         *)
(* JavaScript values are tagged records: [k |-> "undefined"],              *)
(* [k |-> "null"], [k |-> "number", v |-> 3], [k |-> "string", v |-> s],   *)
(* [k |-> "object", ...fields].                                            *)
(***************************************************************************)
EXTENDS Integers, Sequences, FiniteSets, TLC

VARIABLES
  \* ---- runTest / BloomFilterWatchTest ----
  pc,                   \* the await the probe is suspended at
  args,                 \* the arguments runTest was called with
  testRunner,           \* the BloomFilterWatchTest object
  createdDocumentRefs,  \* run(): the created references, in creation order
  snapshot,             \* run(): the snapshot startTarget returned
  documentRefsToDelete, \* run(): the references handed to deleteDocuments
  existenceFilterPromise,
  snapshotPromise,
  racePromise,          \* Promise.race([existenceFilterPromise, snapshotPromise])
  bloomFilterNumBits,   \* resumeWatchStream(): the decoded bit length
  snapshot2,            \* resumeWatchStream(): the snapshot of target 2
  bodyOutcome,          \* how testRunner.run() ended
  thrown,               \* the error runTest rejected with
  log,                  \* the messages given to log()
  \* ---- collaborators ----
  store,                \* DocumentUtil: identifiers of the documents that exist
  stream,               \* WatchStream: none / created / open / closed
  targets,              \* WatchStream: the registered targets
  served,               \* WatchStream: the snapshot reported per target
  settled,              \* WatchStream: the promises of target 2, in the
                        \* order in which they settled
  calls,                \* number of calls made of each collaborator method
  \* ---- Delay ----
  delay,                \* the constructed Delay object
  constructed,          \* the last `new Delay`: its arguments, the
                        \* environment it ran in and whether it threw
  online,               \* environment: isOnline()
  mobile,               \* environment: isMobileCordova() || isReactNative()
  got                   \* the last get(): what isOnline() said and the result

runVars == <<pc, args, testRunner, createdDocumentRefs, snapshot,
             documentRefsToDelete, existenceFilterPromise, snapshotPromise,
             racePromise, bloomFilterNumBits, snapshot2, bodyOutcome, thrown,
             log, store, stream, targets, served, settled, calls>>
delayVars == <<delay, constructed, online, mobile, got>>
vars == <<runVars, delayVars>>

\* ------------------------------------------------------------------------
\* Bounds of the model
\* ------------------------------------------------------------------------
\* largest explicit documentCreateCount_ argument
MaxCreate == 3
\* largest explicit documentDeleteCount_ argument
MaxDelete == 4
\* longest bitmap of an existence filter
MaxBitmapLen == 4

\* ------------------------------------------------------------------------
\* Program constants
\* ------------------------------------------------------------------------
\* run_test.ts:43  documentCreateCount_ ?? 10
DefaultDocumentCreateCount == 10
\* run_test.ts:94  this.pause(10)
PauseSeconds == 10
\* delay.ts:23
OFFLINE_DELAY_MS_ == 5000

\* ------------------------------------------------------------------------
\* JavaScript values
\* ------------------------------------------------------------------------
Undefined == [k |-> "undefined"]
Null == [k |-> "null"]
Num(v) == [k |-> "number", v |-> v]
Str(s) == [k |-> "string", v |-> s]
TypeError == [k |-> "throw", error |-> "TypeError"]

IsNullish(x) == x = Undefined \/ x = Null

\* x?.field
OptChain(x, field) == IF IsNullish(x) THEN Undefined ELSE x[field]

\* x ?? d
Nullish(x, d) == IF IsNullish(x) THEN d ELSE x

\* Math.ceil(a / 2) for an integer a (negative a included)
CeilHalf(a) == IF a >= 0 THEN (a + 1) \div 2 ELSE -((-a) \div 2)

Min(a, b) == IF a <= b THEN a ELSE b

\* ------------------------------------------------------------------------
\* getBloomFilterNumBits  (run_test.ts:181-191)
\* ------------------------------------------------------------------------
PaddingMutant(padding) == padding < 0 \/ padding > 8

\* run_test.ts:187  padding < 0 || padding > 7
PaddingOutOfRange(padding) == padding < 0 \/ padding > 7

getBloomFilterNumBits(existenceFilter) ==
  IF OptChain(existenceFilter, "unchangedNames") = Undefined
  THEN Null
  ELSE IF existenceFilter.unchangedNames = Null
       THEN TypeError   \* null.bits: property access on null
       ELSE LET bits == existenceFilter.unchangedNames.bits
                bitmap == Nullish(OptChain(bits, "bitmap"), Str(<<>>))
                padding == Nullish(OptChain(bits, "padding"), Num(0))
            IN IF PaddingOutOfRange(padding.v)
               THEN Null
               ELSE Num((Len(bitmap.v) * 8) - padding.v)

\* The existence filters the watch stream may hand to the probe.
BitmapInputs ==
  {Undefined, Null} \cup {Str([i \in 1..len |-> 0]) : len \in 0..MaxBitmapLen}
PaddingInputs == {Undefined, Null} \cup {Num(p) : p \in -1..9}
BitsInputs ==
  {Undefined, Null} \cup
  {[k |-> "object", bitmap |-> b, padding |-> p] :
      b \in BitmapInputs, p \in PaddingInputs}
UnchangedNamesInputs ==
  {Undefined, Null} \cup {[k |-> "object", bits |-> b] : b \in BitsInputs}
ExistenceFilterInputs ==
  {Undefined, Null} \cup
  {[k |-> "object", unchangedNames |-> u] : u \in UnchangedNamesInputs}

\* ------------------------------------------------------------------------
\* Documents, paths and snapshots
\* ------------------------------------------------------------------------
\* AutoId.newId(): the identifier of the i-th created document.  Identifiers
\* are unique and unrelated to the creation order.
IdOf(i) == (i * 7) % 13

\* An identifier no document of this run has.
ForeignDocumentId == IdOf(0)

\* The path of a document of the probe's collection.
DocumentPath(id) == <<"documents", id>>

\* util.documentIdFromDocumentPath: the last segment of the path.
documentIdFromDocumentPath(path) == path[Len(path)]

TargetSnapshot(ids) ==
  [k |-> "TargetSnapshot", documentPaths |-> {DocumentPath(id) : id \in ids}]

\* Array.prototype.sort on an array without duplicates.
RECURSIVE Sorted(_)
Sorted(S) ==
  IF S = {} THEN <<>>
  ELSE LET least == CHOOSE x \in S : \A y \in S : x <= y
       IN <<least>> \o Sorted(S \ {least})

Range(s) == {s[i] : i \in DOMAIN s}

\* Array.prototype.slice(start): a negative start counts from the end.
Slice(s, start) ==
  LET from == IF start >= 0 THEN start
              ELSE IF Len(s) + start > 0 THEN Len(s) + start ELSE 0
  IN IF from >= Len(s) THEN <<>> ELSE SubSeq(s, from + 1, Len(s))

assertLengthsMutant(actual, expectedDocuments) ==
  Cardinality(actual.documentPaths) = Len(expectedDocuments)

\* assertDocumentsInSnapshot (run_test.ts:193-197): TRUE when assertDeepEqual
\* passes, FALSE when it throws.
assertDocumentsInSnapshot(actual, expectedDocuments) ==
  LET actualDocumentPathsSorted ==
        Sorted({documentIdFromDocumentPath(p) : p \in actual.documentPaths})
      expectedDocumentPathsSorted == Sorted(Range(expectedDocuments))
  IN actualDocumentPathsSorted = expectedDocumentPathsSorted

OptionsInvalidMutant(documentCreateCount, documentDeleteCount) ==
  documentDeleteCount > documentCreateCount + 1

\* run_test.ts:46
OptionsInvalid(documentCreateCount, documentDeleteCount) ==
  documentDeleteCount > documentCreateCount

\* run_test.ts:43
EffectiveCreateCount(documentCreateCount_) ==
  Nullish(documentCreateCount_, Num(DefaultDocumentCreateCount)).v

\* run_test.ts:44
EffectiveDeleteCount(documentCreateCount_, documentDeleteCount_) ==
  Nullish(documentDeleteCount_,
          Num(CeilHalf(EffectiveCreateCount(documentCreateCount_)))).v

SliceFromFrontMutant(refs, deleteCount) ==
  Slice(refs, deleteCount)

SliceOfSortedMutant(refs, deleteCount) ==
  Slice(Sorted(Range(refs)), Len(refs) - deleteCount)

\* run_test.ts:91
DocumentRefsToDelete(refs, deleteCount) ==
  Slice(refs, Len(refs) - deleteCount)

ExpectedCountAfterDeleteMutant(options, from) ==
  Nullish(OptChain(options, "expectedCount"), Num(Cardinality(store))).v

\* run_test.ts:144
ResumeExpectedCount(options, from) ==
  Nullish(OptChain(options, "expectedCount"),
          Num(Cardinality(from.documentPaths))).v

\* run_test.ts:163
InstanceOfTargetSnapshot(result) == result.k = "TargetSnapshot"

LogsAlwaysMutant(numBits) == TRUE

\* run_test.ts:168
LogsNumBits(numBits) == numBits # Null

\* The snapshots the watch backend may report for a target whose matching
\* documents are `matching`: the right one, one with a document missing,
\* one with a foreign document added, one with a document replaced.
SnapshotResponses(matching) ==
  {TargetSnapshot(matching), TargetSnapshot(matching \cup {ForeignDocumentId})}
  \cup {TargetSnapshot(matching \ {x}) : x \in matching}
  \cup {TargetSnapshot((matching \ {x}) \cup {ForeignDocumentId}) : x \in matching}

\* The existence filters of the wire shape: an object whose unchangedNames,
\* bits, bitmap and padding are each absent or well formed, padding in 0..7.
WireFilters ==
  {f \in ExistenceFilterInputs \ {Undefined, Null} :
     \/ f.unchangedNames = Undefined
     \/ /\ f.unchangedNames # Null
        /\ \/ f.unchangedNames.bits = Undefined
           \/ /\ f.unchangedNames.bits # Null
              /\ f.unchangedNames.bits.bitmap # Null
              /\ LET p == f.unchangedNames.bits.padding
                 IN p = Undefined \/ (p # Null /\ p.v \in 0..7)}

\* The snapshot of a backend that reports the documents currently matching.
ConsistentResponses(matching) == {TargetSnapshot(matching)}

\* ------------------------------------------------------------------------
\* Promises
\* ------------------------------------------------------------------------
NoPromise == [state |-> "none"]
Pending == [state |-> "pending"]
Fulfilled(v) == [state |-> "fulfilled", value |-> v]
Rejected(e) == [state |-> "rejected", value |-> e]

LastSettledWinsMutant(race, outcome) == outcome

\* Promise.race (run_test.ts:161): the race takes the outcome of the promise
\* that settles first and ignores the other.
SettleRace(race, outcome) == IF race.state = "pending" THEN outcome ELSE race

FinallyOnSuccessOnlyMutant(outcome) == outcome = "returned"

\* try { ... } finally { ... } (run_test.ts:56-61): the cleanup block runs
\* however the body ended.
FinallyRuns(outcome) == TRUE

\* ------------------------------------------------------------------------
\* runTest
\* ------------------------------------------------------------------------
NoCalls ==
  [open |-> 0, close |-> 0, createDocuments |-> 0, deleteDocuments |-> 0,
   addTarget |-> 0, removeTarget |-> 0, getInitialSnapshot |-> 0,
   getExistenceFilter |-> 0]

CreateCountInputs == {Null} \cup {Num(n) : n \in 0..MaxCreate}
DeleteCountInputs == {Null} \cup {Num(d) : d \in 0..MaxDelete}

Init ==
  /\ pc = "idle"
  /\ args = Undefined
  /\ testRunner = Undefined
  /\ createdDocumentRefs = <<>>
  /\ snapshot = Undefined
  /\ documentRefsToDelete = <<>>
  /\ existenceFilterPromise = NoPromise
  /\ snapshotPromise = NoPromise
  /\ racePromise = NoPromise
  /\ bloomFilterNumBits = Undefined
  /\ snapshot2 = Undefined
  /\ bodyOutcome = "none"
  /\ thrown = "none"
  /\ log = <<>>
  /\ store = {}
  /\ stream = "none"
  /\ targets = {}
  /\ served = [t \in {1, 2} |-> Undefined]
  /\ settled = <<>>
  /\ calls = NoCalls
  /\ delay = Undefined
  /\ constructed = Undefined
  /\ online = TRUE
  /\ mobile = FALSE
  /\ got = Undefined

\* Leaving the body of the try block (run_test.ts:56-61) with `outcome`,
\* having logged `logged`: the finally block logs and calls close().
EnterFinally(outcome, logged) ==
  /\ bodyOutcome' = outcome
  /\ IF FinallyRuns(outcome)
     THEN /\ log' = Append(logged, <<"Closing watch stream">>)
          /\ calls' = [calls EXCEPT !.close = @ + 1]
          /\ pc' = "close"
          /\ thrown' = thrown
     ELSE /\ log' = logged
          /\ calls' = calls
          /\ pc' = "rejected"
          /\ thrown' = outcome

\* runTest up to its first await (run_test.ts:39-55)
RunTest(documentCreateCount_, documentDeleteCount_) ==
  /\ pc = "idle"
  /\ args' = [documentCreateCount_ |-> documentCreateCount_,
              documentDeleteCount_ |-> documentDeleteCount_]
  /\ LET documentCreateCount == EffectiveCreateCount(documentCreateCount_)
         documentDeleteCount ==
           EffectiveDeleteCount(documentCreateCount_, documentDeleteCount_)
     IN IF OptionsInvalid(documentCreateCount, documentDeleteCount)
        THEN /\ log' = <<<<"Bloom Filter Watch Test Started">>>>
             /\ pc' = "rejected"
             /\ thrown' = "InvalidRunTestOptionsError"
             /\ UNCHANGED <<testRunner, stream, calls>>
        ELSE /\ log' = << <<"Bloom Filter Watch Test Started">>,
                          <<"Creating WatchStream">> >>
             /\ stream' = "created"
             /\ testRunner' = [k |-> "object",
                               documentCreateCount |-> documentCreateCount,
                               documentDeleteCount |-> documentDeleteCount]
             /\ calls' = [calls EXCEPT !.open = @ + 1]
             /\ pc' = "open"
             /\ thrown' = thrown
  /\ UNCHANGED <<createdDocumentRefs, snapshot, documentRefsToDelete,
                 existenceFilterPromise, snapshotPromise, racePromise,
                 bloomFilterNumBits, snapshot2, bodyOutcome, store, targets,
                 served>>
  /\ UNCHANGED <<settled, delayVars>>

\* watchStream.open() resolves; run() starts and createDocuments() calls
\* documentUtil.createDocuments (run_test.ts:55-57, 85-86, 98-100)
OpenResolved ==
  /\ pc = "open"
  /\ stream' = "open"
  /\ log' = Append(log, <<"Creating documents", testRunner.documentCreateCount>>)
  /\ calls' = [calls EXCEPT !.createDocuments = @ + 1]
  /\ pc' = "createDocuments"
  /\ UNCHANGED <<args, testRunner, createdDocumentRefs, snapshot,
                 documentRefsToDelete, existenceFilterPromise, snapshotPromise,
                 racePromise, bloomFilterNumBits, snapshot2, bodyOutcome,
                 thrown, store, targets, served>>
  /\ UNCHANGED <<settled, delayVars>>

\* watchStream.open() rejects: the await is outside the try block
\* (run_test.ts:55), the error leaves runTest.
OpenRejected ==
  /\ pc = "open"
  /\ pc' = "rejected"
  /\ thrown' = "CallRejected"
  /\ UNCHANGED <<args, testRunner, createdDocumentRefs, snapshot,
                 documentRefsToDelete, existenceFilterPromise, snapshotPromise,
                 racePromise, bloomFilterNumBits, snapshot2, bodyOutcome,
                 log, store, stream, targets, served, calls>>
  /\ UNCHANGED <<settled, delayVars>>

\* DocumentUtil.createDocuments creates one more document.
CreateOneDocument ==
  /\ pc = "createDocuments"
  /\ Cardinality(store) < testRunner.documentCreateCount
  /\ store' = store \cup {IdOf(Cardinality(store) + 1)}
  /\ UNCHANGED <<pc, args, testRunner, createdDocumentRefs, snapshot,
                 documentRefsToDelete, existenceFilterPromise, snapshotPromise,
                 racePromise, bloomFilterNumBits, snapshot2, bodyOutcome,
                 thrown, log, stream, targets, served, calls>>
  /\ UNCHANGED <<settled, delayVars>>

\* documentUtil.createDocuments resolves; startTarget() calls addTarget
\* (run_test.ts:100-105, 86-88, 121-129)
CreateDocumentsResolved ==
  /\ pc = "createDocuments"
  /\ Cardinality(store) = testRunner.documentCreateCount
  /\ createdDocumentRefs' =
       [i \in 1..testRunner.documentCreateCount |-> IdOf(i)]
  /\ log' = log \o << <<"Created documents", testRunner.documentCreateCount>>,
                      <<"Adding target to watch stream">> >>
  /\ calls' = [calls EXCEPT !.addTarget = @ + 1]
  /\ pc' = "addTarget1"
  /\ UNCHANGED <<args, testRunner, snapshot, documentRefsToDelete,
                 existenceFilterPromise, snapshotPromise, racePromise,
                 bloomFilterNumBits, snapshot2, bodyOutcome, thrown, store,
                 stream, targets, served>>
  /\ UNCHANGED <<settled, delayVars>>

\* A collaborator call awaited inside the try block rejects: nothing in
\* run() catches it (run_test.ts:85-96), the finally block runs.
BodyCallRejected ==
  /\ pc \in {"createDocuments", "addTarget1", "getInitialSnapshot1",
             "removeTarget1", "deleteDocuments", "addTarget2"}
  /\ EnterFinally("CallRejected", log)
  /\ UNCHANGED <<args, testRunner, createdDocumentRefs, snapshot,
                 documentRefsToDelete, existenceFilterPromise, snapshotPromise,
                 racePromise, bloomFilterNumBits, snapshot2, store, stream,
                 targets, served>>
  /\ UNCHANGED <<settled, delayVars>>

\* addTarget(1) resolves; startTarget() awaits getInitialSnapshot(1)
\* (run_test.ts:123-132)
AddTarget1Resolved ==
  /\ pc = "addTarget1"
  /\ targets' = targets \cup {[targetId |-> 1, resume |-> Undefined]}
  /\ log' = Append(log, <<"Waiting for a snapshot from watch">>)
  /\ calls' = [calls EXCEPT !.getInitialSnapshot = @ + 1]
  /\ pc' = "getInitialSnapshot1"
  /\ UNCHANGED <<args, testRunner, createdDocumentRefs, snapshot,
                 documentRefsToDelete, existenceFilterPromise, snapshotPromise,
                 racePromise, bloomFilterNumBits, snapshot2, bodyOutcome,
                 thrown, store, stream, served>>
  /\ UNCHANGED <<settled, delayVars>>

\* getInitialSnapshot(1) resolves with s; startTarget() calls removeTarget(1)
\* (run_test.ts:132-138)
Snapshot1Resolved(s) ==
  /\ pc = "getInitialSnapshot1"
  /\ served' = [served EXCEPT ![1] = s]
  /\ snapshot' = s
  /\ log' = log \o << <<"Got snapshot with", Cardinality(s.documentPaths)>>,
                      <<"Removing target from watch stream">> >>
  /\ calls' = [calls EXCEPT !.removeTarget = @ + 1]
  /\ pc' = "removeTarget1"
  /\ UNCHANGED <<args, testRunner, createdDocumentRefs, documentRefsToDelete,
                 existenceFilterPromise, snapshotPromise, racePromise,
                 bloomFilterNumBits, snapshot2, bodyOutcome, thrown, store,
                 stream, targets>>
  /\ UNCHANGED <<settled, delayVars>>

\* removeTarget(1) resolves; startTarget() returns, run() asserts and calls
\* deleteDocuments (run_test.ts:138-140, 88-92, 108-112)
RemoveTarget1Resolved ==
  /\ pc = "removeTarget1"
  /\ targets' = {t \in targets : t.targetId # 1}
  /\ IF assertDocumentsInSnapshot(snapshot, createdDocumentRefs)
     THEN LET toDelete == DocumentRefsToDelete(createdDocumentRefs,
                                               testRunner.documentDeleteCount)
          IN /\ documentRefsToDelete' = toDelete
             /\ log' = Append(log, <<"Deleting documents", Len(toDelete)>>)
             /\ calls' = [calls EXCEPT !.deleteDocuments = @ + 1]
             /\ pc' = "deleteDocuments"
             /\ UNCHANGED <<bodyOutcome, thrown>>
     ELSE /\ EnterFinally("AssertionError", log)
          /\ UNCHANGED documentRefsToDelete
  /\ UNCHANGED <<args, testRunner, createdDocumentRefs, snapshot,
                 existenceFilterPromise, snapshotPromise, racePromise,
                 bloomFilterNumBits, snapshot2, store, stream, served>>
  /\ UNCHANGED <<settled, delayVars>>

\* DocumentUtil.deleteDocuments deletes one of the documents it was given.
DeleteOneDocument ==
  /\ pc = "deleteDocuments"
  /\ \E id \in Range(documentRefsToDelete) \cap store : store' = store \ {id}
  /\ UNCHANGED <<pc, args, testRunner, createdDocumentRefs, snapshot,
                 documentRefsToDelete, existenceFilterPromise, snapshotPromise,
                 racePromise, bloomFilterNumBits, snapshot2, bodyOutcome,
                 thrown, log, stream, targets, served, calls>>
  /\ UNCHANGED <<settled, delayVars>>

\* documentUtil.deleteDocuments resolves; run() pauses
\* (run_test.ts:112-113, 92-94, 116-118)
DeleteDocumentsResolved ==
  /\ pc = "deleteDocuments"
  /\ Range(documentRefsToDelete) \cap store = {}
  /\ log' = log \o << <<"Deleted documents", Len(documentRefsToDelete)>>,
                      <<"Pausing for seconds", PauseSeconds>> >>
  /\ pc' = "pause"
  /\ UNCHANGED <<args, testRunner, createdDocumentRefs, snapshot,
                 documentRefsToDelete, existenceFilterPromise, snapshotPromise,
                 racePromise, bloomFilterNumBits, snapshot2, bodyOutcome,
                 thrown, store, stream, targets, served, calls>>
  /\ UNCHANGED <<settled, delayVars>>

\* The timer of pause() fires; resumeWatchStream(snapshot) calls addTarget
\* for target 2 (run_test.ts:94-95, 143-156)
PauseElapsed ==
  /\ pc = "pause"
  /\ log' = Append(log, <<"Resuming target in watch stream with expectedCount",
                          ResumeExpectedCount(Undefined, snapshot)>>)
  /\ calls' = [calls EXCEPT !.addTarget = @ + 1]
  /\ pc' = "addTarget2"
  /\ UNCHANGED <<args, testRunner, createdDocumentRefs, snapshot,
                 documentRefsToDelete, existenceFilterPromise, snapshotPromise,
                 racePromise, bloomFilterNumBits, snapshot2, bodyOutcome,
                 thrown, store, stream, targets, served>>
  /\ UNCHANGED <<settled, delayVars>>

\* addTarget(2) resolves; resumeWatchStream() asks for the existence filter
\* and the snapshot and awaits their race (run_test.ts:146-161)
AddTarget2Resolved ==
  /\ pc = "addTarget2"
  /\ targets' = targets \cup
       {[targetId |-> 2,
         resume |-> [from |-> snapshot,
                     expectedCount |-> ResumeExpectedCount(Undefined, snapshot)]]}
  /\ log' = Append(log, <<"Waiting for an existence filter from watch">>)
  /\ calls' = [calls EXCEPT !.getExistenceFilter = @ + 1,
                            !.getInitialSnapshot = @ + 1]
  /\ existenceFilterPromise' = Pending
  /\ snapshotPromise' = Pending
  /\ racePromise' = Pending
  /\ pc' = "race"
  /\ UNCHANGED <<args, testRunner, createdDocumentRefs, snapshot,
                 documentRefsToDelete, bloomFilterNumBits, snapshot2,
                 bodyOutcome, thrown, store, stream, served>>
  /\ UNCHANGED <<settled, delayVars>>

\* getExistenceFilter(2) resolves with filter f.
ExistenceFilterResolved(f) ==
  /\ pc \in {"race", "snapshotPromise"}
  /\ existenceFilterPromise.state = "pending"
  /\ existenceFilterPromise' = Fulfilled(f)
  /\ racePromise' = SettleRace(racePromise, Fulfilled(f))
  /\ UNCHANGED <<pc, args, testRunner, createdDocumentRefs, snapshot,
                 documentRefsToDelete, snapshotPromise, bloomFilterNumBits,
                 snapshot2, bodyOutcome, thrown, log, store, stream, targets,
                 served, calls>>
  /\ settled' = Append(settled, <<"existenceFilter", "fulfilled">>)
  /\ UNCHANGED delayVars

\* getExistenceFilter(2) rejects.
ExistenceFilterRejected ==
  /\ pc \in {"race", "snapshotPromise"}
  /\ existenceFilterPromise.state = "pending"
  /\ existenceFilterPromise' = Rejected("CallRejected")
  /\ racePromise' = SettleRace(racePromise, Rejected("CallRejected"))
  /\ UNCHANGED <<pc, args, testRunner, createdDocumentRefs, snapshot,
                 documentRefsToDelete, snapshotPromise, bloomFilterNumBits,
                 snapshot2, bodyOutcome, thrown, log, store, stream, targets,
                 served, calls>>
  /\ settled' = Append(settled, <<"existenceFilter", "rejected">>)
  /\ UNCHANGED delayVars

\* getInitialSnapshot(2) resolves with snapshot s.
Snapshot2Resolved(s) ==
  /\ pc \in {"race", "snapshotPromise"}
  /\ snapshotPromise.state = "pending"
  /\ snapshotPromise' = Fulfilled(s)
  /\ served' = [served EXCEPT ![2] = s]
  /\ racePromise' = SettleRace(racePromise, Fulfilled(s))
  /\ UNCHANGED <<pc, args, testRunner, createdDocumentRefs, snapshot,
                 documentRefsToDelete, existenceFilterPromise,
                 bloomFilterNumBits, snapshot2, bodyOutcome, thrown, log,
                 store, stream, targets, calls>>
  /\ settled' = Append(settled, <<"snapshot", "fulfilled">>)
  /\ UNCHANGED delayVars

\* getInitialSnapshot(2) rejects.
Snapshot2Rejected ==
  /\ pc \in {"race", "snapshotPromise"}
  /\ snapshotPromise.state = "pending"
  /\ snapshotPromise' = Rejected("CallRejected")
  /\ racePromise' = SettleRace(racePromise, Rejected("CallRejected"))
  /\ UNCHANGED <<pc, args, testRunner, createdDocumentRefs, snapshot,
                 documentRefsToDelete, existenceFilterPromise,
                 bloomFilterNumBits, snapshot2, bodyOutcome, thrown, log,
                 store, stream, targets, served, calls>>
  /\ settled' = Append(settled, <<"snapshot", "rejected">>)
  /\ UNCHANGED delayVars

\* The race has settled; resumeWatchStream() classifies the result and
\* awaits snapshotPromise (run_test.ts:161-174)
RaceSettled ==
  /\ pc = "race"
  /\ racePromise.state \in {"fulfilled", "rejected"}
  /\ IF racePromise.state = "rejected"
     THEN /\ EnterFinally(racePromise.value, log)
          /\ UNCHANGED bloomFilterNumBits
     ELSE LET result == racePromise.value IN
          IF InstanceOfTargetSnapshot(result)
          THEN /\ log' = log \o << <<"Didn't get an existence filter">>,
                                   <<"Waiting for a snapshot from watch">> >>
               /\ pc' = "snapshotPromise"
               /\ UNCHANGED <<bloomFilterNumBits, bodyOutcome, thrown, calls>>
          ELSE LET numBits == getBloomFilterNumBits(result)
                   logged == Append(log, <<"Got an existence filter">>)
               IN IF numBits = TypeError
                  THEN /\ EnterFinally("TypeError", logged)
                       /\ UNCHANGED bloomFilterNumBits
                  ELSE /\ bloomFilterNumBits' = numBits
                       /\ log' = (IF LogsNumBits(numBits)
                                  THEN Append(logged,
                                         <<"Bloom filter size, in bits", numBits>>)
                                  ELSE logged)
                                 \o << <<"Waiting for a snapshot from watch">> >>
                       /\ pc' = "snapshotPromise"
                       /\ UNCHANGED <<bodyOutcome, thrown, calls>>
  /\ UNCHANGED <<args, testRunner, createdDocumentRefs, snapshot,
                 documentRefsToDelete, existenceFilterPromise, snapshotPromise,
                 racePromise, snapshot2, store, stream, targets, served>>
  /\ UNCHANGED <<settled, delayVars>>

\* snapshotPromise has settled; resumeWatchStream() and run() return and the
\* finally block runs (run_test.ts:174-178, 95-96, 58-60)
SnapshotPromiseSettled ==
  /\ pc = "snapshotPromise"
  /\ snapshotPromise.state \in {"fulfilled", "rejected"}
  /\ IF snapshotPromise.state = "rejected"
     THEN /\ EnterFinally(snapshotPromise.value, log)
          /\ UNCHANGED snapshot2
     ELSE /\ snapshot2' = snapshotPromise.value
          /\ EnterFinally("returned",
               Append(log, <<"Got snapshot with",
                             Cardinality(snapshotPromise.value.documentPaths)>>))
  /\ UNCHANGED <<args, testRunner, createdDocumentRefs, snapshot,
                 documentRefsToDelete, existenceFilterPromise, snapshotPromise,
                 racePromise, bloomFilterNumBits, store, stream, targets,
                 served>>
  /\ UNCHANGED <<settled, delayVars>>

\* watchStream.close() resolves; runTest completes or rethrows the error of
\* the body (run_test.ts:60-64)
CloseResolved ==
  /\ pc = "close"
  /\ stream' = "closed"
  /\ IF bodyOutcome = "returned"
     THEN /\ log' = Append(log, <<"Bloom Filter Watch Test Completed Successfully">>)
          /\ pc' = "resolved"
          /\ UNCHANGED thrown
     ELSE /\ pc' = "rejected"
          /\ thrown' = bodyOutcome
          /\ UNCHANGED log
  /\ UNCHANGED <<args, testRunner, createdDocumentRefs, snapshot,
                 documentRefsToDelete, existenceFilterPromise, snapshotPromise,
                 racePromise, bloomFilterNumBits, snapshot2, bodyOutcome,
                 store, targets, served, calls>>
  /\ UNCHANGED <<settled, delayVars>>

\* watchStream.close() rejects: its error leaves runTest (run_test.ts:60)
CloseRejected ==
  /\ pc = "close"
  /\ pc' = "rejected"
  /\ thrown' = "CallRejected"
  /\ UNCHANGED <<args, testRunner, createdDocumentRefs, snapshot,
                 documentRefsToDelete, existenceFilterPromise, snapshotPromise,
                 racePromise, bloomFilterNumBits, snapshot2, bodyOutcome, log,
                 store, stream, targets, served, calls>>
  /\ UNCHANGED <<settled, delayVars>>

\* ------------------------------------------------------------------------
\* Delay (delay.ts:21-53)
\* ------------------------------------------------------------------------
DelayInputs == {0, 4999, 5000, 5001, 30000}

DelayGetCurrentEnvMutant(d, isOnline) ==
  IF ~isOnline
  THEN Min(OFFLINE_DELAY_MS_, d.shortDelay)
  ELSE IF mobile THEN d.longDelay ELSE d.shortDelay

\* Delay.get (delay.ts:42-52); isOnline is what isOnline() returns
DelayGet(d, isOnline) ==
  IF ~isOnline
  THEN Min(OFFLINE_DELAY_MS_, d.shortDelay)
  ELSE IF d.isMobile THEN d.longDelay ELSE d.shortDelay

\* new Delay(shortDelay, longDelay) (delay.ts:31-40)
NewDelay(shortDelay, longDelay) ==
  /\ delay = Undefined
  /\ IF shortDelay > longDelay
     THEN /\ constructed' = [shortDelay |-> shortDelay, longDelay |-> longDelay,
                             mobile |-> mobile, threw |-> TRUE]
          /\ UNCHANGED delay
     ELSE /\ constructed' = [shortDelay |-> shortDelay, longDelay |-> longDelay,
                             mobile |-> mobile, threw |-> FALSE]
          /\ delay' = [k |-> "Delay", shortDelay |-> shortDelay,
                       longDelay |-> longDelay, isMobile |-> mobile]
  /\ UNCHANGED <<online, mobile, got>>
  /\ UNCHANGED runVars

\* delay.get()
Get ==
  /\ delay # Undefined
  /\ got' = [online |-> online, value |-> DelayGet(delay, online)]
  /\ UNCHANGED <<delay, constructed, online, mobile>>
  /\ UNCHANGED runVars

\* The environment goes online or offline.
SetOnline(b) ==
  /\ online # b
  /\ online' = b
  /\ UNCHANGED <<delay, constructed, mobile, got>>
  /\ UNCHANGED runVars

\* The environment starts or stops looking like a mobile one.
SetMobile(b) ==
  /\ mobile # b
  /\ mobile' = b
  /\ UNCHANGED <<delay, constructed, online, got>>
  /\ UNCHANGED runVars

\* ------------------------------------------------------------------------
\* Specifications
\* ------------------------------------------------------------------------
ProbeSteps ==
  \/ \E n \in CreateCountInputs, d \in DeleteCountInputs : RunTest(n, d)
  \/ OpenResolved
  \/ CreateOneDocument
  \/ CreateDocumentsResolved
  \/ AddTarget1Resolved
  \/ RemoveTarget1Resolved
  \/ DeleteOneDocument
  \/ DeleteDocumentsResolved
  \/ PauseElapsed
  \/ AddTarget2Resolved
  \/ RaceSettled
  \/ SnapshotPromiseSettled
  \/ CloseResolved

Rejections ==
  \/ OpenRejected
  \/ BodyCallRejected
  \/ ExistenceFilterRejected
  \/ Snapshot2Rejected
  \/ CloseRejected

\* The probe against a watch backend that may report a wrong snapshot and
\* whose calls may fail.
Next ==
  \/ ProbeSteps
  \/ Rejections
  \/ \E s \in SnapshotResponses(store) : Snapshot1Resolved(s)
  \/ \E s \in SnapshotResponses(store) : Snapshot2Resolved(s)
  \/ \E f \in ExistenceFilterInputs : ExistenceFilterResolved(f)

Spec == Init /\ [][Next]_vars

\* The probe against a watch backend that reports the documents currently
\* matching a target and existence filters of the wire shape, none of whose
\* calls fails and all of whose calls are answered.
NextConsistent ==
  \/ ProbeSteps
  \/ \E s \in ConsistentResponses(store) : Snapshot1Resolved(s)
  \/ \E s \in ConsistentResponses(store) : Snapshot2Resolved(s)
  \/ \E f \in WireFilters : ExistenceFilterResolved(f)

ConsistentSpec ==
  /\ Init
  /\ [][NextConsistent]_vars
  /\ WF_vars(ProbeSteps)
  /\ WF_vars(\E s \in ConsistentResponses(store) : Snapshot1Resolved(s))
  /\ WF_vars(\E s \in ConsistentResponses(store) : Snapshot2Resolved(s))

\* Delay objects in a changing environment.
DelayNext ==
  \/ \E s \in DelayInputs, l \in DelayInputs : NewDelay(s, l)
  \/ Get
  \/ \E b \in BOOLEAN : SetOnline(b)
  \/ \E b \in BOOLEAN : SetMobile(b)

DelaySpec == Init /\ [][DelayNext]_vars

\* ------------------------------------------------------------------------
\* Properties
\* ------------------------------------------------------------------------
\* The counts a call of runTest works with, as the specification states them.
ClaimedCreateCount ==
  IF args.documentCreateCount_ = Null THEN 10 ELSE args.documentCreateCount_.v

ClaimedDeleteCount ==
  IF args.documentDeleteCount_ = Null
  THEN CHOOSE c \in 0..ClaimedCreateCount :
         2 * c >= ClaimedCreateCount /\ 2 * (c - 1) < ClaimedCreateCount
  ELSE args.documentDeleteCount_.v

SnapshotIds(s) == {documentIdFromDocumentPath(path) : path \in s.documentPaths}
CreatedIds == Range(createdDocumentRefs)
Registered(id) == \E t \in targets : t.targetId = id
Logged(text) == \E i \in DOMAIN log : log[i][1] = text
LogIndex(text) == CHOOSE i \in DOMAIN log : log[i][1] = text

\* C1: a call of runTest whose effective documentDeleteCount exceeds its
\* effective documentCreateCount is rejected with InvalidRunTestOptionsError
\* and has created no document, deleted none, and neither created nor opened
\* the watch stream nor given it a target.
C1_InvalidOptionsRejected ==
  (pc # "idle" /\ ClaimedDeleteCount > ClaimedCreateCount)
    => /\ pc = "rejected"
       /\ thrown = "InvalidRunTestOptionsError"
       /\ store = {}
       /\ calls = NoCalls
       /\ stream = "none"
       /\ targets = {}

C1_Witness ==
  /\ pc = "rejected"
  /\ thrown = "InvalidRunTestOptionsError"
  /\ args.documentCreateCount_ = Num(2)
  /\ args.documentDeleteCount_ = Num(3)

\* C2: once watchStream.open() has resolved, close() is called exactly once
\* however the body of the probe ends: it is never called twice, it is called
\* as soon as the body has returned or thrown and not before, and no run that
\* opened the stream ends without the call.
C2_StreamClosedOnce ==
  /\ calls.close <= 1
  /\ (bodyOutcome # "none") <=> (calls.close = 1)
  /\ (pc \in {"resolved", "rejected"} /\ stream # "none" /\ stream # "created")
       => calls.close = 1
  /\ pc = "resolved" => stream = "closed"

C2_Witness ==
  /\ pc = "rejected"
  /\ thrown = "AssertionError"
  /\ calls.close = 1
  /\ stream = "closed"

\* C3: the run reaches the delete step only when the identifiers of the
\* first snapshot of target 1 are exactly the n created identifiers; when
\* the two sets differ the body fails and no document is ever deleted.
C3_InitialSnapshotExact ==
  /\ calls.deleteDocuments > 0
       => /\ snapshot # Undefined
          /\ SnapshotIds(snapshot) = CreatedIds
          /\ Cardinality(CreatedIds) = ClaimedCreateCount
  /\ (snapshot # Undefined /\ SnapshotIds(snapshot) # CreatedIds)
       => /\ calls.deleteDocuments = 0
          /\ store = CreatedIds
          /\ pc \in {"removeTarget1", "close", "rejected"}
          /\ pc # "removeTarget1"
               => bodyOutcome \in {"AssertionError", "CallRejected"}

C3_Witness ==
  /\ thrown = "AssertionError"
  /\ Cardinality(SnapshotIds(snapshot)) = Len(createdDocumentRefs)
  /\ ForeignDocumentId \in SnapshotIds(snapshot)
  /\ calls.deleteDocuments = 0
  /\ Len(createdDocumentRefs) = 3

\* The last d of the n created identifiers, by creation order, and the rest.
LastCreated(d) ==
  {createdDocumentRefs[i] :
     i \in (Len(createdDocumentRefs) - d + 1)..Len(createdDocumentRefs)}
FirstCreated(k) == {createdDocumentRefs[i] : i \in 1..k}

FilterClassified ==
  /\ pc \notin {"idle", "race"}
  /\ racePromise.state = "fulfilled"
  /\ racePromise.value.k # "TargetSnapshot"
ClassifiedFilter == racePromise.value
NumBitsResult == IF bodyOutcome = "TypeError" THEN TypeError ELSE bloomFilterNumBits

HasPadding(f) ==
  /\ ~IsNullish(f)
  /\ ~IsNullish(f.unchangedNames)
  /\ ~IsNullish(f.unchangedNames.bits)
  /\ ~IsNullish(f.unchangedNames.bits.padding)
  /\ ~IsNullish(f.unchangedNames.bits.bitmap)

\* C5: for a filter whose padding is outside [0,7] the bit length is null;
\* for a filter whose padding is in [0,7] it is the number of bytes of the
\* bitmap times 8 minus the padding; for a missing filter it is null.
C5_BitLength ==
  FilterClassified =>
    LET f == ClassifiedFilter IN
    /\ IsNullish(f) => NumBitsResult = Null
    /\ HasPadding(f) =>
         LET padding == f.unchangedNames.bits.padding.v
             bytes == Len(f.unchangedNames.bits.bitmap.v)
         IN IF padding \in 0..7
            THEN NumBitsResult = Num(bytes * 8 - padding)
            ELSE NumBitsResult = Null

C5_Witness ==
  /\ FilterClassified
  /\ HasPadding(ClassifiedFilter)
  /\ Len(ClassifiedFilter.unchangedNames.bits.bitmap.v) = 4
  /\ ClassifiedFilter.unchangedNames.bits.padding.v = 3
  /\ bloomFilterNumBits = Num(29)

\* A field the computation needs is absent.
FieldMissing(f) ==
  \/ IsNullish(f)
  \/ IsNullish(f.unchangedNames)
  \/ IsNullish(f.unchangedNames.bits)
  \/ IsNullish(f.unchangedNames.bits.bitmap)
  \/ IsNullish(f.unchangedNames.bits.padding)

PaddingOf(f) == f.unchangedNames.bits.padding.v

\* C6 as stated: whenever the filter, unchangedNames, bits, bitmap or padding
\* is absent, or the padding is out of range, the result is null, nothing is
\* raised and no bit length is logged.
C6_NullWheneverFieldMissing ==
  (FilterClassified
     /\ (FieldMissing(ClassifiedFilter) \/ PaddingOf(ClassifiedFilter) \notin 0..7))
    => /\ NumBitsResult = Null
       /\ ~Logged("Bloom filter size, in bits")

\* C6 amended: the result is null, and no bit length is logged, when the
\* filter is absent, when unchangedNames is undefined, and when the padding
\* (0 when bits or padding is absent) is out of range; a TypeError is raised
\* when unchangedNames is null; in every other case, absent bits, bitmap or
\* padding included, the result is a number, computed with an empty bitmap
\* for an absent one and padding 0 for an absent one, and it is logged.
C6_NullOnlyWithoutUnchangedNames ==
  FilterClassified =>
    LET f == ClassifiedFilter
        present == ~IsNullish(f) /\ ~IsNullish(f.unchangedNames)
        bits == f.unchangedNames.bits
        bytes == IF IsNullish(bits) \/ IsNullish(bits.bitmap)
                 THEN 0 ELSE Len(bits.bitmap.v)
        padding == IF IsNullish(bits) \/ IsNullish(bits.padding)
                   THEN 0 ELSE bits.padding.v
    IN /\ (IsNullish(f) \/ f.unchangedNames = Undefined) => NumBitsResult = Null
       /\ (~IsNullish(f) /\ f.unchangedNames = Null) => NumBitsResult = TypeError
       /\ (present /\ padding \notin 0..7) => NumBitsResult = Null
       /\ (present /\ padding \in 0..7) => NumBitsResult = Num(bytes * 8 - padding)
       /\ Logged("Bloom filter size, in bits") <=> NumBitsResult.k = "number"

C6_Witness ==
  /\ FilterClassified
  /\ ~IsNullish(ClassifiedFilter)
  /\ ~IsNullish(ClassifiedFilter.unchangedNames)
  /\ ClassifiedFilter.unchangedNames.bits = Undefined
  /\ bloomFilterNumBits = Num(0)
  /\ Logged("Bloom filter size, in bits")

\* C7: target 2 is registered as a resumption of the snapshot the watch
\* stream reported for target 1, with the number of created documents n as
\* its expected count, not the number left after the deletion.
C7_ResumesFromSnapshot ==
  \A t \in targets :
    t.targetId = 2
      => /\ t.resume # Undefined
         /\ t.resume.from = served[1]
         /\ t.resume.expectedCount = ClaimedCreateCount
         /\ log[LogIndex("Resuming target in watch stream with expectedCount")][2]
              = ClaimedCreateCount

C7_Witness ==
  /\ Registered(2)
  /\ args.documentCreateCount_ = Null
  /\ args.documentDeleteCount_ = Null
  /\ Cardinality(store) = 5
  /\ \E t \in targets : t.targetId = 2 /\ t.resume.expectedCount = 10

C9_PhasesInOrder ==
  /\ [](Registered(1)
          => /\ Len(createdDocumentRefs) = ClaimedCreateCount
             /\ store = CreatedIds
             /\ Cardinality(store) = ClaimedCreateCount
             /\ (calls.deleteDocuments = 0 \/ pc \in {"close", "rejected"}))
  /\ [](pc = "deleteDocuments" => targets = {})
  /\ [](Registered(2)
          => /\ store = CreatedIds \ LastCreated(ClaimedDeleteCount)
             /\ Cardinality(store) = ClaimedCreateCount - ClaimedDeleteCount
             /\ Logged("Deleted documents")
             /\ LogIndex("Deleted documents") < LogIndex("Pausing for seconds")
             /\ LogIndex("Pausing for seconds")
                  < LogIndex("Resuming target in watch stream with expectedCount"))
  /\ [](~(Registered(1) /\ Registered(2)))
  /\ [][store' # store /\ store' \subseteq store => targets = {}]_vars

C9_Witness ==
  /\ Registered(2)
  /\ args.documentCreateCount_ = Num(3)
  /\ args.documentDeleteCount_ = Num(1)
  /\ store = {IdOf(1), IdOf(2)}

====
